---- MODULE Spec2Model ----
(***************************************************************************)
(* A model of energia's Operation / Process (components/operations):       *)
(* model attachment (__setattr__), resource binding (__call__), the bound  *)
(* checks, locate, and the writing of the operate and capacity Conversions.*)
(* One Operation ("self") lives in a model whose Aspects also hold the     *)
(* bookkeeping of another operation ("other").                             *)
(***************************************************************************)
EXTENDS Integers, Sequences, FiniteSets, TLC

\* ------------------------------------------------------------- bounds
NumSpaces == 1
NumTimes == 2
NumResources == 2
MaxConversions == 2
MaxDomains == 2
MaxLocate == 2
MaxPairs == 1
MaxCalls == 3
MaxWritePairs == 2
MaxAttempts == 4
NumResults == 2
NumExceptions == 2

\* ------------------------------------------------------------- values
None == "None"
TheModel == "M"
Self == "self"
Other == "other"
NoResource == 0
NoLag == 0
NoTime == 0

\* model.network: the implicit space of a locate() without arguments
Network == 0
Spaces == 0..NumSpaces
Times == 1..NumTimes
\* self.horizon: the coarsest period, the greatest of the comparable times
Horizon == NumTimes
Resources == 1..NumResources
SpaceTimes == Spaces \X Times

VARIABLES
    model,                \* self.model: None or the owning model
    conversions,          \* self.conversions: the resource of each raw specification
    backrefs,             \* per raw specification: how often conv.operation was assigned
    operate_conversion,   \* [exists, resource, modes]
    capacity_conversion,  \* [exists, resource, modes]
    locations,            \* Process.locations (= spaces)
    space_times,          \* self.space_times
    capacity_bound_spaces,\* capacity aspect: bound_spaces
    operate_bound_spaces, \* operate aspect: bound_spaces
    domains,              \* operate aspect: domains, each <<space, time>>
    dispositions,         \* operate aspect: dispositions
    capacity_bounds,      \* per space: capacity bound constraints emitted so far
    operate_bounds,       \* per space: operate bound constraints emitted so far
    operate_writes,       \* per space: operate_conversion.write calls so far
    capacity_writes,      \* per space: capacity_conversion.write calls so far
    trace,                \* what the last call did, in order: <<kind, space, time>>
    scheduled,            \* the local space_times collected by the last locate
    located,              \* the spaces of the locate calls that returned
    called,               \* the resources of the __call__ calls that returned
    last,                 \* the last call and its arguments
    ret,                  \* what it returned
    err,                  \* the exception it raised, "none" if it returned
    calls,                \* the number of calls made
    failing,              \* the pairs for which operate_conversion.write raises
    write_calls,          \* per pair: operate_conversion.write calls so far
    retry                 \* utils.modeling.retry: the state of one retry(func, ...) call

vars == <<model, conversions, backrefs, operate_conversion, capacity_conversion,
          locations, space_times, capacity_bound_spaces, operate_bound_spaces,
          domains, dispositions, capacity_bounds, operate_bounds, operate_writes,
          capacity_writes, trace, scheduled, located, called, last, ret, err, calls,
          failing, write_calls, retry>>

\* ------------------------------------------------------------ helpers
Contains(seq, x) == \E i \in 1..Len(seq) : seq[i] = x

Range(seq) == {seq[i] : i \in 1..Len(seq)}

NoDuplicates(seq) == \A i, j \in 1..Len(seq) : seq[i] = seq[j] => i = j

IsPrefix(a, b) == Len(a) <= Len(b) /\ \A i \in 1..Len(a) : a[i] = b[i]

SeqsUpTo(S, n) == UNION {[1..k -> S] : k \in 0..n}

\* Python's min over a non-empty set of comparable times
Min(S) == CHOOSE x \in S : \A y \in S : x <= y

Kinds(tr) == {tr[i][1] : i \in 1..Len(tr)}

Incr(f, s) == [f EXCEPT ![s] = @ + 1]

NoCall == [op |-> "init", spaces |-> <<>>, pairs |-> <<>>, space |-> Network,
           resource |-> NoResource, lag |-> NoLag, value |-> None]

\* a Conversion as constructed (process.py), and the attribute left None
NewConversion == [exists |-> TRUE, resource |-> NoResource, modes |-> <<>>]
NoConversion == [exists |-> FALSE, resource |-> NoResource, modes |-> <<>>]

EmptyBounds == [ub |-> <<>>, lb |-> <<>>]

\* an exception object: <<kind, identity>>; NoException is Python's None
NoException == <<"none", 0>>

\* retry(func, attempts, exceptions) not called
NoRetry == [pc |-> "idle", attempts |-> 0, invoked |-> 0, outcomes |-> <<>>,
            last_exception |-> NoException, result |-> 0, raised |-> NoException]

\* the mutable state a call threads through its steps
Heap == [cbs |-> capacity_bound_spaces, obs |-> operate_bound_spaces,
         cub |-> capacity_bounds, oub |-> operate_bounds,
         locs |-> locations, sts |-> space_times,
         opw |-> operate_writes, capw |-> capacity_writes, tr |-> <<>>,
         wc |-> write_calls, exc |-> "none"]

Commit(h) ==
    /\ capacity_bound_spaces' = h.cbs
    /\ operate_bound_spaces' = h.obs
    /\ capacity_bounds' = h.cub
    /\ operate_bounds' = h.oub
    /\ locations' = h.locs
    /\ space_times' = h.sts
    /\ operate_writes' = h.opw
    /\ capacity_writes' = h.capw
    /\ trace' = h.tr
    /\ write_calls' = h.wc

Log(h, kind, space, time) == [h EXCEPT !.tr = Append(@, <<kind, space, time>>)]

\* a call that raises before it changed anything
Raise(call, exc) ==
    /\ last' = call
    /\ err' = exc
    /\ ret' = <<"raise">>
    /\ trace' = <<>>
    /\ calls' = calls + 1
    /\ UNCHANGED <<model, conversions, backrefs, operate_conversion, capacity_conversion,
                   locations, space_times, capacity_bound_spaces, operate_bound_spaces,
                   domains, dispositions, capacity_bounds, operate_bounds, operate_writes,
                   capacity_writes, scheduled, located, called, failing, write_calls,
                   retry>>

\* ------------------------------------------------------------- Aspect
\* capacity_aspect / operate_aspect: getattr(self.model, ...)
AspectsAvailable == model # None

\* the `not in` test of lines 128 and 144 lost: the entry is reset on every check
InitBoundSpaces_Reset(bs) ==
    [o \in DOMAIN bs \cup {Self} |-> IF o = Self THEN EmptyBounds ELSE bs[o]]

\* bound_spaces[self] = {"ub": [], "lb": []} when self has no entry
InitBoundSpaces(bs) ==
    IF Self \in DOMAIN bs THEN bs
    ELSE [o \in DOMAIN bs \cup {Self} |-> IF o = Self THEN EmptyBounds ELSE bs[o]]

\* the relational operator of a Sample: registers the constraint and records
\* the space as upper-bounded for the operation
SampleRelation(bs, space) ==
    [bs EXCEPT ![Self].ub = Append(@, space)]

\* ------------------------------------------------------- bound checks
\* the guard of line 132 lost: the bound is written on every check
NeedsCapacityBound_Always(bs, space) == TRUE

NeedsCapacityBound(bs, space) == ~Contains(bs[Self].ub, space)

\* the capacity check writing `<= 1` as the operate check does
CapacityBoundKind_LeOne == "capacity_le_1"

\* the relation the capacity check writes: capacity_sample(...) == True
CapacityBoundKind == "capacity_eq_true"

\* the check falling off its end and returning None
NoNewBound_None == <<"none">>

\* return False: no new bound was written
NoNewBound == <<"false">>

\* return self, space, time
BoundDescriptor(space, time) == <<"bound", space, time>>

check_capacity_bound(h, space) ==
    LET bs == InitBoundSpaces(h.cbs)
        h1 == Log([h EXCEPT !.cbs = bs], "capacity_check", space, NoTime)
    IN  IF NeedsCapacityBound(bs, space)
        THEN [h |-> [Log(h1, CapacityBoundKind, space, Horizon)
                        EXCEPT !.cbs = SampleRelation(bs, space),
                               !.cub = Incr(@, space)],
              ret |-> BoundDescriptor(space, Horizon)]
        ELSE [h |-> h1, ret |-> NoNewBound]

\* the guard of line 148 inverted: `in` for `not in`
NeedsOperateBound_Inverted(bs, space) == Contains(bs[Self].ub, space)

NeedsOperateBound(bs, space) == ~Contains(bs[Self].ub, space)

HasDisposition(space) ==
    Self \in DOMAIN dispositions /\ space \in DOMAIN dispositions[Self]

\* the dispositions test of lines 152-155 lost: always the horizon
OperateBoundTime_AlwaysHorizon(space) == Horizon

OperateBoundTime(space) ==
    IF HasDisposition(space) THEN Min(dispositions[Self][space]) ELSE Horizon

\* the relation the operate check writes: operate_sample(...) <= 1
OperateBoundKind == "operate_le_1"

check_operate_bound(h, space) ==
    LET bs == InitBoundSpaces(h.obs)
        h1 == Log([h EXCEPT !.obs = bs], "operate_check", space, NoTime)
        time == OperateBoundTime(space)
    IN  IF NeedsOperateBound(bs, space)
        THEN [h |-> [Log(h1, OperateBoundKind, space, time)
                        EXCEPT !.obs = SampleRelation(bs, space),
                               !.oub = Incr(@, space)],
              ret |-> BoundDescriptor(space, time)]
        ELSE [h |-> h1, ret |-> NoNewBound]

\* --------------------------------------------------- conversion writing
\* the early return of line 219 lost
OperateConversionMissing_Never == FALSE

OperateConversionMissing == ~operate_conversion.exists

\* the skip of line 247 lost
AlreadyBalanced_Never(locs, space) == FALSE

AlreadyBalanced(locs, space) == Contains(locs, space)

\* operate_conversion.write(space, time): one more call for the pair, which
\* raises for the pairs the Conversion cannot write
CallWrite(h, space, time) ==
    [Log(h, "operate_write", space, time)
        EXCEPT !.opw = Incr(@, space),
               !.wc = Incr(@, <<space, time>>),
               !.exc = IF <<space, time>> \in failing THEN "Exception" ELSE "none"]

\* self.spaces.append(space); self.space_times.append((space, time))
RecordPair(h, space, time) ==
    [h EXCEPT !.locs = Append(@, space), !.sts = Append(@, <<space, time>>)]

\* the pair recorded although its write raised
AfterWriteRaised_Recorded(h, space, time) == RecordPair(h, space, time)

\* the exception of write leaves the loop before the appends
AfterWriteRaised(h, space, time) == h

\* the loop of _write_operate_conversion over the pairs from index i on
RECURSIVE WritePairs(_, _, _)
WritePairs(h, pairs, i) ==
    IF i > Len(pairs) THEN h
    ELSE LET space == pairs[i][1]
             time == pairs[i][2]
             w == CallWrite(h, space, time)
         IN  IF AlreadyBalanced(h.locs, space)
             THEN WritePairs(h, pairs, i + 1)
             ELSE IF w.exc # "none"
                  THEN AfterWriteRaised(w, space, time)
                  ELSE WritePairs(RecordPair(w, space, time), pairs, i + 1)

\* balancer() called only when there is a pair to write
write_operate_conversion_BalanceIfPairs(h, pairs) ==
    IF OperateConversionMissing
    THEN [h |-> Log(h, "warning", Network, NoTime), ret |-> <<"none">>]
    ELSE LET h1 == WritePairs(IF pairs = <<>> THEN h
                              ELSE Log(h, "operate_balancer", Network, NoTime),
                              pairs, 1)
         IN  [h |-> h1,
              ret |-> IF h1.exc # "none" THEN <<"raise">> ELSE <<"spaces", h1.locs>>]

write_operate_conversion(h, pairs) ==
    IF OperateConversionMissing
    THEN [h |-> Log(h, "warning", Network, NoTime), ret |-> <<"none">>]
    ELSE LET h1 == WritePairs(Log(h, "operate_balancer", Network, NoTime), pairs, 1)
         IN  [h |-> h1,
              ret |-> IF h1.exc # "none" THEN <<"raise">> ELSE <<"spaces", h1.locs>>]

\* the loop of _write_capacity_conversion over the pairs from index i on
RECURSIVE WriteCapacityPairs(_, _, _)
WriteCapacityPairs(h, pairs, i) ==
    IF i > Len(pairs) THEN h
    ELSE WriteCapacityPairs([Log(h, "capacity_write", pairs[i][1], pairs[i][2])
                                EXCEPT !.capw = Incr(@, pairs[i][1])],
                            pairs, i + 1)

write_capacity_conversion(h, pairs) ==
    WriteCapacityPairs(Log(h, "capacity_balancer", Network, NoTime), pairs, 1)

\* ------------------------------------------------------------- locate
\* the filter of line 182 lost: every domain counts for the space
DomainMatches_Any(d, space) == TRUE

DomainMatches(d, space) == d[1] = space

\* for d in self.operate_aspect.domains, from index i on
RECURSIVE ScanDomains(_, _, _)
ScanDomains(acc, space, i) ==
    IF i > Len(domains) THEN acc
    ELSE LET space_time == <<space, domains[i][2]>>
         IN  ScanDomains(IF DomainMatches(domains[i], space) /\ ~Contains(acc, space_time)
                         THEN Append(acc, space_time) ELSE acc,
                         space, i + 1)

\* lines 176 and 178 swapped: the operate check first
CheckBounds_OperateFirst(h, space) ==
    check_capacity_bound(check_operate_bound(h, space).h, space).h

\* the two bound checks of one iteration: capacity, then operate
CheckBounds(h, space) ==
    check_operate_bound(check_capacity_bound(h, space).h, space).h

\* for space in spaces, from index i on: [h, acc]
RECURSIVE LocateSpaces(_, _, _, _)
LocateSpaces(h, acc, spaces, i) ==
    IF i > Len(spaces) THEN [h |-> h, acc |-> acc]
    ELSE LocateSpaces(CheckBounds(h, spaces[i]), ScanDomains(acc, spaces[i], 1),
                      spaces, i + 1)

\* the capacity Conversion written for the pairs of this call only
WriteCapacityAfterLocate_NewPairsOnly(h) ==
    IF capacity_conversion.exists
    THEN write_capacity_conversion(h, SubSeq(h.sts, Len(space_times) + 1, Len(h.sts)))
    ELSE h

WriteCapacityAfterLocate(h) ==
    IF capacity_conversion.exists THEN write_capacity_conversion(h, h.sts) ELSE h

locate(args) ==
    LET call == [NoCall EXCEPT !.op = "locate", !.spaces = args]
        spaces == IF args = <<>> THEN <<Network>> ELSE args
        l == LocateSpaces(Heap, <<>>, spaces, 1)
        w == write_operate_conversion(l.h, l.acc)
    IN  /\ calls < MaxCalls
        /\ IF ~AspectsAvailable
           THEN Raise(call, "AttributeError")
           ELSE /\ IF w.h.exc # "none"
                   THEN \* the exception of write leaves locate
                        /\ Commit(w.h)
                        /\ located' = located
                        /\ ret' = <<"raise">>
                   ELSE /\ Commit(WriteCapacityAfterLocate(w.h))
                        /\ located' = located \cup Range(spaces)
                        /\ ret' = <<"locate", spaces>>
                /\ scheduled' = l.acc
                /\ last' = call
                /\ err' = w.h.exc
                /\ calls' = calls + 1
                /\ UNCHANGED <<model, conversions, backrefs, operate_conversion,
                               capacity_conversion, domains, dispositions, called,
                               failing, retry>>

\* a direct call of _check_capacity_bound(space)
CheckCapacityBound(space) ==
    LET call == [NoCall EXCEPT !.op = "check_capacity_bound", !.space = space]
        c == check_capacity_bound(Heap, space)
    IN  /\ calls < MaxCalls
        /\ IF ~AspectsAvailable
           THEN Raise(call, "AttributeError")
           ELSE /\ Commit(c.h)
                /\ last' = call
                /\ ret' = c.ret
                /\ err' = "none"
                /\ calls' = calls + 1
                /\ UNCHANGED <<model, conversions, backrefs, operate_conversion,
                               capacity_conversion, domains, dispositions, scheduled,
                               located, called, failing, retry>>

\* a direct call of _check_operate_bound(space)
CheckOperateBound(space) ==
    LET call == [NoCall EXCEPT !.op = "check_operate_bound", !.space = space]
        c == check_operate_bound(Heap, space)
    IN  /\ calls < MaxCalls
        /\ IF ~AspectsAvailable
           THEN Raise(call, "AttributeError")
           ELSE /\ Commit(c.h)
                /\ last' = call
                /\ ret' = c.ret
                /\ err' = "none"
                /\ calls' = calls + 1
                /\ UNCHANGED <<model, conversions, backrefs, operate_conversion,
                               capacity_conversion, domains, dispositions, scheduled,
                               located, called, failing, retry>>

\* a direct call of _write_operate_conversion(space_times)
WriteOperateConversion(pairs) ==
    LET w == write_operate_conversion(Heap, pairs)
    IN  /\ calls < MaxCalls
        /\ Commit(w.h)
        /\ last' = [NoCall EXCEPT !.op = "write_operate_conversion", !.pairs = pairs]
        /\ ret' = w.ret
        /\ err' = w.h.exc
        /\ calls' = calls + 1
        /\ UNCHANGED <<model, conversions, backrefs, operate_conversion,
                       capacity_conversion, domains, dispositions, scheduled,
                       located, called, failing, retry>>

\* ------------------------------------------------------ __call__
Truthy(lag) == lag # NoLag

\* Conversion.__call__(resource[, lag]): what the Conversion was called with
ConversionCall(resource, lag) == <<"conversion", resource, lag>>

\* first write wins: the resource is bound only while unset
BindResource_IfUnset(conv, resource) ==
    IF conv.resource = NoResource THEN [conv EXCEPT !.resource = resource] ELSE conv

\* self.operate_conversion.resource = resource
BindResource(conv, resource) == [conv EXCEPT !.resource = resource]

call(resource, lag) ==
    LET c == [NoCall EXCEPT !.op = "call", !.resource = resource, !.lag = lag]
    IN  /\ calls < MaxCalls
        /\ IF ~operate_conversion.exists
           THEN Raise(c, "AttributeError")
           ELSE /\ operate_conversion' = BindResource(operate_conversion, resource)
                /\ ret' = IF Truthy(lag) THEN ConversionCall(resource, lag)
                                          ELSE ConversionCall(resource, NoLag)
                /\ called' = called \cup {resource}
                /\ last' = c
                /\ err' = "none"
                /\ trace' = <<>>
                /\ calls' = calls + 1
                /\ UNCHANGED <<model, conversions, backrefs, capacity_conversion,
                               locations, space_times, capacity_bound_spaces,
                               operate_bound_spaces, domains, dispositions,
                               capacity_bounds, operate_bounds, operate_writes,
                               capacity_writes, scheduled, located, failing,
                               write_calls, retry>>

\* ------------------------------------------------------ __setattr__
\* `>= 1` for `== 1`: the first of several specifications is merged
SingleConversion_AtLeastOne == Len(conversions) >= 1

SingleConversion == Len(conversions) = 1

\* self.operate_conversion += conv; self.operate_conversion.resource = conv.resource
MergeConversion(conv, resource) ==
    [conv EXCEPT !.modes = Append(@, resource), !.resource = resource]

\* self.model = value
setattr_model(value) ==
    LET c == [NoCall EXCEPT !.op = "setattr_model", !.value = value]
        hook == value # None
        merge == hook /\ SingleConversion
    IN  /\ calls < MaxCalls
        \* attachment is never reversed: None is assigned only before it
        /\ value = None => model = None
        /\ backrefs' = IF hook THEN [i \in 1..Len(conversions) |-> backrefs[i] + 1]
                       ELSE backrefs
        /\ last' = c
        /\ trace' = <<>>
        /\ calls' = calls + 1
        /\ IF merge /\ ~operate_conversion.exists
           THEN \* None += conv
                /\ err' = "TypeError"
                /\ ret' = <<"raise">>
                /\ UNCHANGED <<model, operate_conversion>>
           ELSE /\ err' = "none"
                /\ ret' = <<"none">>
                /\ model' = value
                /\ operate_conversion' =
                       IF merge THEN MergeConversion(operate_conversion, conversions[1])
                       ELSE operate_conversion
        /\ UNCHANGED <<conversions, capacity_conversion, locations, space_times,
                       capacity_bound_spaces, operate_bound_spaces, domains,
                       dispositions, capacity_bounds, operate_bounds, operate_writes,
                       capacity_writes, scheduled, located, called, failing,
                       write_calls, retry>>

\* ------------------------------------------------- the specifications
\* the declared domains of the operate Aspect: distinct <<space, time>> pairs
DomainChoices == {d \in SeqsUpTo(SpaceTimes, MaxDomains) : NoDuplicates(d)}

\* dispositions: no entry for self, an empty entry, or the times of one space
DispositionChoices ==
    {<<>>, [o \in {Self} |-> <<>>]} \cup
    {[o \in {Self} |-> [s \in {space} |-> T]] :
        space \in Spaces, T \in (SUBSET Times) \ {{}}}

\* Operation.__init__ / Process.__init__, in a model whose Aspects hold what
\* the user declared; env: [conversions, operate, capacity, domains, dispositions];
\* nothing written yet
Constructed(env) ==
    /\ model = None
    /\ conversions = env.conversions
    /\ backrefs = [i \in 1..Len(env.conversions) |-> 0]
    /\ operate_conversion = env.operate
    /\ capacity_conversion = env.capacity
    /\ locations = <<>>
    /\ space_times = <<>>
    /\ capacity_bound_spaces = [o \in {Other} |-> [ub |-> <<Network>>, lb |-> <<>>]]
    /\ operate_bound_spaces = [o \in {Other} |-> [ub |-> <<Network>>, lb |-> <<>>]]
    /\ domains = env.domains
    /\ dispositions = env.dispositions
    /\ capacity_bounds = [s \in Spaces |-> 0]
    /\ operate_bounds = [s \in Spaces |-> 0]
    /\ operate_writes = [s \in Spaces |-> 0]
    /\ capacity_writes = [s \in Spaces |-> 0]
    /\ trace = <<>>
    /\ scheduled = <<>>
    /\ located = {}
    /\ called = {}
    /\ last = NoCall
    /\ ret = <<"none">>
    /\ err = "none"
    /\ calls = 0
    /\ write_calls = [p \in SpaceTimes |-> 0]

\* locating: an Operation with at most one raw specification, with or without
\* each Conversion, under every declared environment; every write succeeds
Init ==
    /\ failing = {}
    /\ retry = NoRetry
    /\ \E c \in SeqsUpTo({1}, 1), o \in {NewConversion, NoConversion},
          k \in {NewConversion, NoConversion}, d \in DomainChoices,
          p \in DispositionChoices :
           Constructed([conversions |-> c, operate |-> o, capacity |-> k,
                        domains |-> d, dispositions |-> p])

Next ==
    \/ \E value \in {None, TheModel} : setattr_model(value)
    \/ \E resource \in Resources, lag \in {NoLag, 1} : call(resource, lag)
    \/ \E args \in SeqsUpTo(Spaces, MaxLocate) : locate(args)
    \/ \E space \in Spaces : CheckCapacityBound(space)
    \/ \E space \in Spaces : CheckOperateBound(space)
    \/ \E pairs \in SeqsUpTo(SpaceTimes, MaxPairs) : WriteOperateConversion(pairs)

Spec == Init /\ [][Next]_vars

\* attaching and binding: every choice of raw specifications, nothing declared
InitAttach ==
    /\ failing = {}
    /\ retry = NoRetry
    /\ \E c \in SeqsUpTo(Resources, MaxConversions), o \in {NewConversion, NoConversion} :
           Constructed([conversions |-> c, operate |-> o, capacity |-> o,
                        domains |-> <<>>, dispositions |-> <<>>])

NextAttach ==
    \/ \E value \in {None, TheModel} : setattr_model(value)
    \/ \E resource \in Resources, lag \in {NoLag, 1} : call(resource, lag)

SpecAttach == InitAttach /\ [][NextAttach]_vars

\* writing: a Process, whose operate Conversion always exists, with or without
\* a capacity Conversion; at most one pair is one its operate Conversion
\* cannot write, and the same pair fails every time
InitWrite ==
    /\ failing \in {F \in SUBSET SpaceTimes : Cardinality(F) <= 1}
    /\ retry = NoRetry
    /\ \E k \in {NewConversion, NoConversion}, d \in DomainChoices :
           Constructed([conversions |-> <<>>, operate |-> NewConversion, capacity |-> k,
                        domains |-> d, dispositions |-> <<>>])

NextWrite ==
    \/ \E value \in {None, TheModel} : setattr_model(value)
    \/ \E args \in SeqsUpTo(Spaces, MaxLocate) : locate(args)
    \/ \E pairs \in SeqsUpTo(SpaceTimes, MaxWritePairs) : WriteOperateConversion(pairs)

SpecWrite == InitWrite /\ [][NextWrite]_vars

\* ------------------------------------------------------------- retry
\* the variables of the Operation, which a retry call leaves alone
operation_vars ==
    <<model, conversions, backrefs, operate_conversion, capacity_conversion,
      locations, space_times, capacity_bound_spaces, operate_bound_spaces,
      domains, dispositions, capacity_bounds, operate_bounds, operate_writes,
      capacity_writes, trace, scheduled, located, called, last, ret, err, calls,
      failing, write_calls>>

\* what func() may return, and the exception objects it may raise: those that
\* are instances of `exceptions` and those that are not
Results == 1..NumResults

Exceptions == {"listed", "unlisted"} \X (1..NumExceptions)

\* retry(func, attempts, exceptions) entered: last_exception = None
RetryCalled(attempts) ==
    [pc |-> "loop", attempts |-> attempts, invoked |-> 0, outcomes |-> <<>>,
     last_exception |-> NoException, result |-> 0, raised |-> NoException]

\* for _ in range(attempts): another iteration follows
HasNextAttempt == retry.pc = "loop" /\ retry.invoked < retry.attempts

\* a bare `except:` that catches every exception
RetryCatches_All(exc) == TRUE

\* except exceptions as e
RetryCatches(exc) == exc[1] = "listed"

\* return func(): the invocation returns value
func_returns(value) ==
    /\ HasNextAttempt
    /\ retry' = [retry EXCEPT !.pc = "returned",
                              !.invoked = @ + 1,
                              !.outcomes = Append(@, <<"return", value>>),
                              !.result = value]
    /\ UNCHANGED operation_vars

\* func() raises exc: kept as last_exception when caught, propagated when not
func_raises(exc) ==
    /\ HasNextAttempt
    /\ retry' = IF RetryCatches(exc)
                THEN [retry EXCEPT !.invoked = @ + 1,
                                   !.outcomes = Append(@, exc),
                                   !.last_exception = exc]
                ELSE [retry EXCEPT !.pc = "raised",
                                   !.invoked = @ + 1,
                                   !.outcomes = Append(@, exc),
                                   !.raised = exc]
    /\ UNCHANGED operation_vars

\* raise last_exception, after the loop; raising None is a TypeError
raise_last_exception ==
    /\ retry.pc = "loop"
    /\ ~HasNextAttempt
    /\ retry' = [retry EXCEPT !.pc = "raised",
                              !.raised = IF retry.last_exception = NoException
                                         THEN <<"TypeError", 0>>
                                         ELSE retry.last_exception]
    /\ UNCHANGED operation_vars

\* one call of retry, for every number of attempts from -1 up
InitRetry ==
    /\ failing = {}
    /\ retry \in {RetryCalled(attempts) : attempts \in (0 - 1)..MaxAttempts}
    /\ Constructed([conversions |-> <<>>, operate |-> NoConversion,
                    capacity |-> NoConversion, domains |-> <<>>,
                    dispositions |-> <<>>])

NextRetry ==
    \/ \E value \in Results : func_returns(value)
    \/ \E exc \in Exceptions : func_raises(exc)
    \/ raise_last_exception

SpecRetry == InitRetry /\ [][NextRetry]_vars

\* ------------------------------------------------------------- claims
Returned(op) == last.op = op /\ err = "none"

InNoDomain(space) == \A i \in 1..Len(domains) : domains[i][1] # space

ConstraintKinds == {"capacity_eq_true", "operate_le_1", "operate_write", "capacity_write"}

\* the constraints the last call wrote for the space
ConstraintsFor(space) ==
    {i \in 1..Len(trace) : trace[i][1] \in ConstraintKinds /\ trace[i][2] = space}

StructuralWrites(space) == operate_writes[space] + capacity_writes[space]

\* C1: a locate call on an Operation with both Conversions does not raise the
\* number of operate_conversion.write and capacity_conversion.write calls of
\* any space that an earlier locate call already located.
C1_RelocateWritesNothing ==
    [][(/\ last'.op = "locate"
        /\ calls' = calls + 1
        /\ err' = "none"
        /\ operate_conversion.exists
        /\ capacity_conversion.exists)
       => \A s \in located : StructuralWrites(s)' = StructuralWrites(s)]_vars

\* C2: for each space, each Aspect's upper-bound constraint of the operation
\* is emitted at most once, whatever checks and locate calls are made.
C2_BoundEmittedAtMostOnce ==
    \A s \in Spaces : capacity_bounds[s] <= 1 /\ operate_bounds[s] <= 1

\* C2 witness: a repeated capacity check of a space whose bound was written
C2_Witness ==
    /\ Returned("check_capacity_bound")
    /\ ret[1] = "false"
    /\ capacity_bounds[last.space] = 1
    /\ operate_bounds[last.space] = 1

\* C3: after a bound check returns, its space is in bound_spaces[self]["ub"]
\* of the Aspect checked.
C3_CheckedSpaceIsBound ==
    /\ Returned("check_capacity_bound") =>
           /\ Self \in DOMAIN capacity_bound_spaces
           /\ Contains(capacity_bound_spaces[Self].ub, last.space)
    /\ Returned("check_operate_bound") =>
           /\ Self \in DOMAIN operate_bound_spaces
           /\ Contains(operate_bound_spaces[Self].ub, last.space)

\* C3 witness: an operate check that wrote the bound of a space other than
\* the network
C3_Witness ==
    /\ Returned("check_operate_bound")
    /\ ret[1] = "bound"
    /\ last.space # Network

\* C4: after a non-null model is assigned, an Operation constructed with one
\* raw specification has that specification's resource; with none or several
\* nothing is merged and the resource is unset unless a call bound it.
C4_ResourceAutoBinding ==
    (Returned("setattr_model") /\ last.value # None) =>
        /\ Len(conversions) = 1 =>
               /\ operate_conversion.resource = conversions[1]
               /\ operate_conversion.modes # <<>>
        /\ Len(conversions) # 1 =>
               /\ operate_conversion.modes = <<>>
               /\ called = {} => operate_conversion.resource = NoResource

\* C4 witness: a Process with one raw specification, just attached
C4_Witness ==
    /\ Returned("setattr_model")
    /\ last.value # None
    /\ Len(conversions) = 1
    /\ operate_conversion.exists
    /\ operate_conversion.resource = conversions[1]

\* C5: once attached, every raw specification is back-referenced and, over
\* all assignments of the model, the single raw specification was merged into
\* the operate Conversion exactly once (and nothing was merged otherwise).
C5_AttachmentEffectsOnce ==
    model # None =>
        /\ \A i \in 1..Len(conversions) : backrefs[i] >= 1
        /\ Len(operate_conversion.modes) = (IF Len(conversions) = 1 THEN 1 ELSE 0)

\* C6 (as amended): locate schedules a pair only if it is a declared domain
\* of one of the spaces located; for a space in no domain it schedules no pair
\* and writes no operate conversion.
C6_DomainFiltering ==
    Returned("locate") =>
        /\ \A i \in 1..Len(scheduled) :
               /\ Contains(domains, scheduled[i])
               /\ Contains(ret[2], scheduled[i][1])
        /\ \A s \in Range(ret[2]) : InNoDomain(s) =>
               /\ \A i \in 1..Len(scheduled) : scheduled[i][1] # s
               /\ \A i \in ConstraintsFor(s) : trace[i][1] # "operate_write"

\* C6 witness: a locate of two spaces, one with a domain and one without
C6_Witness ==
    /\ Returned("locate")
    /\ scheduled # <<>>
    /\ \E s \in Range(ret[2]) : InNoDomain(s)

\* C6 as stated: locate schedules a pair only if it is a declared domain, and
\* writes no constraint at all for a space in no domain.
C6_NoConstraintOutsideDomains ==
    Returned("locate") =>
        /\ \A i \in 1..Len(scheduled) : Contains(domains, scheduled[i])
        /\ \A s \in Range(ret[2]) : InNoDomain(s) =>
               /\ \A i \in 1..Len(scheduled) : scheduled[i][1] # s
               /\ ConstraintsFor(s) = {}

\* C7: locate() on an Operation with no raw specification and no model ends
\* in the warning: it does not raise, writes nothing, spaces stays empty.
C7_LocateUnattachedWarns ==
    (last.op = "locate" /\ last.spaces = <<>> /\ model = None /\ Len(conversions) = 0) =>
        /\ err = "none"
        /\ Kinds(trace) = {"warning"}
        /\ locations = <<>>

AtMostOnePerSpace(pairs) ==
    \A i, j \in 1..Len(pairs) : pairs[i][1] = pairs[j][1] => i = j

\* C8: locations and space_times never hold a duplicate, space_times holds at
\* most one pair per space, and every call leaves the old contents as a prefix.
C8_NoDuplicatesAppendOnly ==
    /\ [](NoDuplicates(locations) /\ NoDuplicates(space_times)
          /\ AtMostOnePerSpace(space_times))
    /\ [][IsPrefix(locations, locations') /\ IsPrefix(space_times, space_times')]_vars

\* C8 witness: a locate that scheduled the two times of a located space and
\* added nothing
C8_Witness ==
    /\ Returned("locate")
    /\ Len(scheduled) = 2
    /\ scheduled[1][1] = scheduled[2][1]
    /\ "operate_write" \notin Kinds(trace)
    /\ Len(locations) = 1

\* C9: _write_operate_conversion without an operate Conversion warns once and
\* returns None: no balancer, no write, spaces and space_times as before.
C9_MissingConversionIsNoOp ==
    [][(/\ last'.op = "write_operate_conversion"
        /\ calls' = calls + 1
        /\ ~operate_conversion.exists)
       => /\ err' = "none"
          /\ ret'[1] = "none"
          /\ Len(trace') = 1
          /\ Kinds(trace') = {"warning"}
          /\ locations' = locations
          /\ space_times' = space_times
          /\ operate_writes' = operate_writes]_vars

\* C9 witness: the call with a pair, on an attached Operation with a capacity
\* Conversion only
C9_Witness ==
    /\ Returned("write_operate_conversion")
    /\ ~operate_conversion.exists
    /\ capacity_conversion.exists
    /\ model # None
    /\ last.pairs # <<>>
    /\ Kinds(trace) = {"warning"}

\* C10: a call binds the commodity as the operate Conversion's resource and
\* returns the Conversion called with the commodity and the lag given.
C10_CallBindsResource ==
    Returned("call") =>
        /\ operate_conversion.resource = last.resource
        /\ ret = ConversionCall(last.resource, last.lag)

\* C10 witness: the second call, with a lag and another commodity, on an
\* Operation whose resource was bound at attachment
C10_Witness ==
    /\ Returned("call")
    /\ Cardinality(called) = 2
    /\ model # None
    /\ Len(operate_conversion.modes) = 1
    /\ last.resource # conversions[1]
    /\ last.lag # NoLag

\* the positions of the events of the given kinds, and of a space, in the trace
Positions(kinds) == {i \in 1..Len(trace) : trace[i][1] \in kinds}

PositionsOf(kinds, space) == {i \in Positions(kinds) : trace[i][2] = space}

IsCheck(e) == e[1] \in {"capacity_check", "operate_check"}

\* the spaces a locate call iterates over
Supplied == IF last.spaces = <<>> THEN <<Network>> ELSE last.spaces

\* C11: inside one locate call the spaces are processed in the order supplied:
\* for each one the capacity-bound check comes first, then the operate-bound
\* check, and both (with the bounds they write) come before any conversion
\* write for that space; the operation's bound_spaces entry exists in both
\* Aspects once the call has written.
C11_LocateOrder ==
    Returned("locate") =>
        LET checks == SelectSeq(trace, IsCheck)
        IN  /\ Len(checks) = 2 * Len(Supplied)
            /\ \A i \in 1..Len(Supplied) :
                   /\ checks[2 * i - 1] = <<"capacity_check", Supplied[i], NoTime>>
                   /\ checks[2 * i] = <<"operate_check", Supplied[i], NoTime>>
            /\ \A space \in Range(Supplied) :
                   \A i \in PositionsOf({"capacity_check", "operate_check",
                                         "capacity_eq_true", "operate_le_1"}, space),
                      j \in PositionsOf({"operate_write", "capacity_write"}, space) :
                       i < j
            /\ Self \in DOMAIN capacity_bound_spaces
            /\ Self \in DOMAIN operate_bound_spaces

\* C11 witness: two spaces located in one call, the larger first, both of them
\* bounded and written for both Conversions
C11_Witness ==
    /\ Returned("locate")
    /\ last.spaces = <<1, Network>>
    /\ \A space \in {1, Network} :
           /\ PositionsOf({"capacity_eq_true"}, space) # {}
           /\ PositionsOf({"operate_le_1"}, space) # {}
           /\ PositionsOf({"operate_write"}, space) # {}
           /\ PositionsOf({"capacity_write"}, space) # {}

WroteBound(op) == Returned(op) /\ ret[1] = "bound"

\* C13 as stated: both bound checks emit the same form of constraint,
\* sample(space, time) <= 1.
C13_SameForm ==
    /\ WroteBound("check_capacity_bound") => trace[Len(trace)][1] = "capacity_le_1"
    /\ WroteBound("check_operate_bound") => trace[Len(trace)][1] = "operate_le_1"

\* C13, amended: the operate check emits sample(space, time) <= 1, the capacity
\* check emits sample(space, horizon) == True.
C13_BoundForms ==
    /\ WroteBound("check_capacity_bound") =>
           trace[Len(trace)] = <<"capacity_eq_true", last.space, Horizon>>
    /\ WroteBound("check_operate_bound") =>
           /\ trace[Len(trace)][1] = "operate_le_1"
           /\ trace[Len(trace)][2] = last.space

\* C13 witness: a capacity check that wrote its bound, after an operate check
\* of the same space wrote its own
C13_Witness ==
    /\ WroteBound("check_capacity_bound")
    /\ Len(trace) = 2
    /\ trace[2][1] = "capacity_eq_true"
    /\ operate_bounds[last.space] = 1

\* the space is upper-bounded for the operation
AlreadyBound(bs, space) == Self \in DOMAIN bs /\ Contains(bs[Self].ub, space)

\* the step is a direct bound check that did not raise
CheckStep(op) == last'.op = op /\ err' = "none" /\ calls' = calls + 1

\* what a bound check returns and emits, given whether the space was bound
\* when it was called
CheckOutcome(was_bound, bounds, bounds2) ==
    LET space == last'.space
    IN  IF was_bound
        THEN /\ Len(ret') = 1
             /\ ret'[1] = "false"
             /\ Len(trace') = 1
             /\ bounds2 = bounds
        ELSE /\ Len(ret') = 3
             /\ Len(trace') = 2
             /\ ret'[1] = "bound"
             /\ ret'[2] = space
             /\ trace'[2][2] = space
             /\ ret'[3] = trace'[2][3]
             /\ bounds2 = Incr(bounds, space)

\* C14: a bound check returns False, and emits nothing, exactly when the space
\* is in bound_spaces[operation]["ub"] when it is called; otherwise it returns
\* the descriptor (operation, space, time) of the constraint it has just written.
C14_CheckReturn ==
    [][/\ CheckStep("check_capacity_bound") =>
            CheckOutcome(AlreadyBound(capacity_bound_spaces, last'.space),
                         capacity_bounds, capacity_bounds')
       /\ CheckStep("check_operate_bound") =>
            CheckOutcome(AlreadyBound(operate_bound_spaces, last'.space),
                         operate_bounds, operate_bounds')]_vars

\* C14 witness: the second capacity check of a space returns False
C14_Witness ==
    /\ Returned("check_capacity_bound")
    /\ Len(ret) = 1
    /\ ret[1] = "false"
    /\ Len(trace) = 1
    /\ capacity_bounds[last.space] = 1
    /\ operate_bounds[last.space] = 0

\* the entries of bs are kept in bs2: nothing removed from "ub", "lb" as it
\* was, the entries of other operations as they were
BoundsKept(bs, bs2) ==
    \A o \in DOMAIN bs :
        /\ o \in DOMAIN bs2
        /\ IsPrefix(bs[o].ub, bs2[o].ub)
        /\ bs2[o].lb = bs[o].lb
        /\ o # Self => bs2[o] = bs[o]

\* an entry of bs2 that bs lacks is the operation's own, created empty: it
\* holds no more than the spaces bounded in this step
CreatedEmpty(bs, bs2, bounds, bounds2) ==
    \A o \in DOMAIN bs2 \ DOMAIN bs :
        /\ o = Self
        /\ bs2[o].lb = <<>>
        /\ \A space \in Range(bs2[o].ub) : bounds2[space] = bounds[space] + 1

\* C15: a space once in bound_spaces[operation]["ub"] is never removed; the
\* entry of an operation is created, empty, only when absent, and is never
\* reset or replaced; the entries of other operations are left unchanged.
C15_BoundSpacesMonotone ==
    [][/\ BoundsKept(capacity_bound_spaces, capacity_bound_spaces')
       /\ BoundsKept(operate_bound_spaces, operate_bound_spaces')
       /\ CreatedEmpty(capacity_bound_spaces, capacity_bound_spaces',
                       capacity_bounds, capacity_bounds')
       /\ CreatedEmpty(operate_bound_spaces, operate_bound_spaces',
                       operate_bounds, operate_bounds')]_vars

\* C15 witness: a later check finds the entry and appends a second space to it
C15_Witness ==
    /\ Returned("check_operate_bound")
    /\ ret[1] = "bound"
    /\ Len(operate_bound_spaces[Self].ub) = 2
    /\ operate_bound_spaces[Other].ub = <<Network>>

\* the capacity writes of the pairs, as events
CapacityWritesOf(pairs) ==
    [i \in 1..Len(pairs) |-> <<"capacity_write", pairs[i][1], pairs[i][2]>>]

\* C16: every locate of an Operation with a capacity Conversion calls, after
\* the operate writing, the capacity balancer once and then the capacity write
\* once for each entry of the whole accumulated space_times, in recorded
\* order; this also happens when the operate Conversion is missing.
C16_CapacityRewritten ==
    (Returned("locate") /\ capacity_conversion.exists) =>
        /\ Cardinality(Positions({"capacity_balancer"})) = 1
        /\ \A k \in Positions({"capacity_balancer"}) :
               /\ SubSeq(trace, k + 1, Len(trace)) = CapacityWritesOf(space_times)
               /\ \A i \in Positions({"warning", "operate_balancer", "operate_write"}) :
                      i < k
               /\ \A i \in Positions({"capacity_write"}) : k < i

\* C16 witness: the second locate writes one new pair for the operate
\* Conversion and both accumulated pairs for the capacity Conversion
C16_Witness ==
    /\ Returned("locate")
    /\ capacity_conversion.exists
    /\ Len(space_times) = 2
    /\ Cardinality(Positions({"operate_write"})) = 1
    /\ Cardinality(Positions({"capacity_write"})) = 2

\* C17: each call of _write_operate_conversion on an Operation with an operate
\* Conversion calls balancer() exactly once, before any write of that call,
\* whatever the pairs: none, all of them skipped, or some written.
C17_BalancerOncePerCall ==
    (last.op \in {"write_operate_conversion", "locate"} /\ err = "none"
        /\ operate_conversion.exists) =>
        /\ Cardinality(Positions({"operate_balancer"})) = 1
        /\ \A i \in Positions({"operate_balancer"}), j \in Positions({"operate_write"}) :
               i < j

\* C17 witness: a call all of whose pairs are skipped still balances once
C17_Witness ==
    /\ Returned("write_operate_conversion")
    /\ operate_conversion.exists
    /\ last.pairs # <<>>
    /\ trace = <<<<"operate_balancer", Network, NoTime>>>>

\* the pair of an event
PairOf(e) == <<e[2], e[3]>>

\* locations mirrors space_times, whose pairs were each written once
RecordedOnceWritten ==
    /\ Len(locations) = Len(space_times)
    /\ \A i \in 1..Len(space_times) :
           /\ locations[i] = space_times[i][1]
           /\ write_calls[space_times[i]] = 1

\* a pair recorded in this step had its first write called in this step
WrittenWhenRecorded ==
    \A i \in (Len(space_times) + 1)..Len(space_times') :
        /\ write_calls[space_times'[i]] = 0
        /\ \E j \in 1..Len(trace') :
               trace'[j][1] = "operate_write" /\ PairOf(trace'[j]) = space_times'[i]

\* a call that write left by raising: the pair of the last write is recorded
\* nowhere, the pairs written before it in the call are
RaisedWriteUnrecorded ==
    (err' = "Exception" /\ calls' = calls + 1) =>
        LET n == Len(trace')
        IN  /\ trace'[n][1] = "operate_write"
            /\ ~Contains(locations', trace'[n][2])
            /\ ~Contains(space_times', PairOf(trace'[n]))
            /\ \A j \in 1..(n - 1) :
                   trace'[j][1] = "operate_write" =>
                       Contains(space_times', PairOf(trace'[j]))
            /\ IsPrefix(space_times, space_times')
            /\ IsPrefix(locations, locations')

\* C18: locations is exactly the first components of space_times, in the same
\* order; each recorded pair had operate_conversion.write called for it exactly
\* once, before it was recorded; when write raises for a pair, its space is
\* recorded in neither sequence and the pairs processed earlier in the same
\* call stay recorded.
C18_LocationsMirrorSpaceTimes ==
    [](RecordedOnceWritten) /\ [][WrittenWhenRecorded /\ RaisedWriteUnrecorded]_vars

\* C18 witness: a locate of two spaces whose second write raised: the first
\* pair is recorded, the second is not
C18_Witness ==
    /\ last.op = "locate"
    /\ err = "Exception"
    /\ Len(last.spaces) = 2
    /\ Cardinality(Positions({"operate_write"})) = 2
    /\ Len(space_times) = 1
    /\ locations = <<last.spaces[1]>>

\* the invocations of func made so far that raised
RaisedInvocations ==
    {i \in 1..Len(retry.outcomes) : retry.outcomes[i][1] # "return"}

\* C19: retry invokes func at most `attempts` times (never, when attempts is
\* not positive) and never again after an invocation that returns; it returns
\* the result of the first invocation that does not raise; an exception that
\* is not an instance of `exceptions` propagates from the attempt that raised
\* it, with no further attempt.
C19_RetryAttempts ==
    /\ retry.invoked = Len(retry.outcomes)
    /\ retry.invoked <= retry.attempts \/ retry.invoked = 0
    /\ \A i \in 1..(Len(retry.outcomes) - 1) : retry.outcomes[i][1] = "listed"
    /\ \A i \in 1..Len(retry.outcomes) :
           /\ retry.outcomes[i][1] = "return" =>
                  /\ retry.pc = "returned"
                  /\ retry.result = retry.outcomes[i][2]
                  /\ \A j \in 1..(i - 1) : j \in RaisedInvocations
           /\ retry.outcomes[i][1] = "unlisted" =>
                  /\ retry.pc = "raised"
                  /\ retry.raised = retry.outcomes[i]
    /\ retry.pc = "returned" => retry.outcomes[Len(retry.outcomes)][1] = "return"

\* C19 witness: the second of three attempts returns, after a listed
\* exception; the third is never made
C19_Witness ==
    /\ retry.pc = "returned"
    /\ retry.attempts = 3
    /\ retry.invoked = 2
    /\ retry.outcomes[1][1] = "listed"
    /\ retry.result = 2

\* C20: when all `attempts` invocations raise a listed exception, retry raises
\* the exception of the last invocation; for every value of attempts,
\* attempts <= 0 included, retry ends either by returning a result of func or
\* by raising an exception that func raised.
C20_EndsWithOutcomeOfFunc ==
    /\ (retry.pc = "raised" /\ retry.attempts >= 1
            /\ retry.invoked = retry.attempts
            /\ RaisedInvocations = 1..retry.attempts) =>
           retry.raised = retry.outcomes[retry.attempts]
    /\ retry.pc = "raised" =>
           \E i \in RaisedInvocations : retry.outcomes[i] = retry.raised
    /\ retry.pc = "returned" =>
           \E i \in 1..Len(retry.outcomes) :
               retry.outcomes[i] = <<"return", retry.result>>

====
